---- MODULE Spec2Model ----
(***************************************************************************)
(* Model of the inventory backend of tatjam/station (src/src/inventory.rs). *)
(*                                                                         *)
(* Staging ledger: the store is the relation the handlers update (`stock`, *)
(* one row per part id, columns quantity and staged, both nullable).       *)
(* Every request handler is an async task: it suspends at pool.acquire()   *)
(* and at the one SQL statement it executes, so a handler is two steps,    *)
(* "enter and acquire a connection" and "execute the statement and build   *)
(* the response".  A single SQL statement is one atomic step of the store. *)
(*                                                                         *)
(* Search: query_inventory builds one SELECT from a SearchForm; the model  *)
(* evaluates its WHERE, ORDER BY and LIMIT on the rows of `inventory`.     *)
(*                                                                         *)
(* Spec       stage / unstage / confirm requests on any catalog            *)
(* SpecAdjust update_stage calls only, items starting at staged = 0        *)
(* SpecSearch one search request on a catalog                              *)
(***************************************************************************)
EXTENDS Integers, Sequences, FiniteSets

\* ------------------------------------------------------------------ bounds
NumItems == 2
MaxQty   == 2
NumProcs == 2
MaxDelta == 2

Items == 1..NumItems
Procs == 1..NumProcs

\* ------------------------------------------------- Option<T> / SQL NULL
NULL == <<>>
Some(v) == <<v>>
IsSome(x) == x # NULL
COALESCE(x, d) == IF x = NULL THEN d ELSE x[1]
\* PostgreSQL LEAST ignores NULL arguments; a is never NULL here.
LEAST(a, q) == IF q = NULL THEN a ELSE IF a <= q[1] THEN a ELSE q[1]

VARIABLES
    stock,      \* part id -> [quantity, staged], the rows of relation stock
    stock0,     \* the catalog as the external tooling left it (history)
    req,        \* per task: the request a handler is serving and its outcome
    inventory,  \* the rows of relation inventory, in heap order
    form,       \* the SearchForm of the search request
    search,     \* the search task: where it is, its response and its rows
    fandc,      \* the FootprintAndCategoryForm of the filter-list request
    list,       \* the filter-list task: where it is, the store's answer,
                \* its response and the options it rendered
    fmt         \* a format_value call: its arguments and its output

stagingVars == <<stock, stock0, req>>
searchVars == <<inventory, form, search>>
listVars == <<fandc, list>>
formatVars == <<fmt>>
vars == <<stock, stock0, req, inventory, form, search, fandc, list, fmt>>

\* ------------------------------------------------------------ responses
NoMark == [mark |-> "none", n |-> 0]

\* handle_generic_inventory_error: the "try again later" article.
handle_generic_inventory_error == [body |-> "article_error", span |-> NoMark]

\* html_stage: "(n)" for n > 0, "( ERROR )" for n < 0, an empty span for
\* Some(0) and for None.
html_stage(number) ==
    [body |-> "span",
     span |-> IF IsSome(number) /\ number[1] > 0
                 THEN [mark |-> "count", n |-> number[1]]
              ELSE IF IsSome(number) /\ number[1] < 0
                 THEN [mark |-> "error", n |-> 0]
              ELSE NoMark]

OkBody == [body |-> "OK", span |-> NoMark]

\* ------------------------------------------------------------- requests
Idle == [pc |-> "idle", kind |-> "none", id |-> 0, number |-> 0,
         exec |-> "none", result |-> NULL, trigger |-> FALSE,
         response |-> [body |-> "none", span |-> NoMark]]

\* ------------------------------------------------- the update statement
\* The row the UPDATE's SET and WHERE expressions are evaluated against:
\* the row as it is in the store when the statement executes.
\* (variant: the row as read before the other requests ran)
RowAtStart(id) == stock0[id]
RowAtWrite(id) == stock[id]

\* WHERE part_id = id AND quantity IS NOT NULL AND COALESCE(staged,0)+n >= 0
\* (variants: without the quantity condition, without the >= 0 condition,
\* with an upper-bound condition added)
UpdateStageWhere_NoNullCheck(row, number) ==
    COALESCE(row.staged, 0) + number >= 0
UpdateStageWhere_NoFloor(row, number) ==
    row.quantity # NULL
UpdateStageWhere_Strict(row, number) ==
    /\ row.quantity # NULL
    /\ COALESCE(row.staged, 0) + number >= 0
    /\ COALESCE(row.staged, 0) + number <= row.quantity[1]
UpdateStageWhere(row, number) ==
    /\ row.quantity # NULL
    /\ COALESCE(row.staged, 0) + number >= 0

\* SET staged = LEAST(COALESCE(staged, 0) + n, quantity)
\* (variant: without LEAST)
UpdateStageSet_NoLeast(row, number) ==
    [row EXCEPT !.staged = Some(COALESCE(row.staged, 0) + number)]
UpdateStageSet(row, number) ==
    [row EXCEPT !.staged =
        Some(LEAST(COALESCE(row.staged, 0) + number, row.quantity))]

\* ------------------------------------------------- the commit statement
\* WHERE staged <= quantity  (a comparison with NULL is not true)
\* (variant: every row with a quantity)
ConfirmWhere_All(row) == row.quantity # NULL
ConfirmWhere(row) ==
    /\ row.staged # NULL
    /\ row.quantity # NULL
    /\ row.staged[1] <= row.quantity[1]

\* SET quantity = quantity - COALESCE(staged, 0), staged = NULL
\* (variant: staged is kept)
ConfirmSet_KeepStaged(row) ==
    [quantity |-> Some(row.quantity[1] - COALESCE(row.staged, 0)),
     staged   |-> row.staged]
ConfirmSet(row) ==
    [quantity |-> Some(row.quantity[1] - COALESCE(row.staged, 0)),
     staged   |-> NULL]

ConfirmAll(s) ==
    [i \in Items |-> IF ConfirmWhere(s[i]) THEN ConfirmSet(s[i]) ELSE s[i]]

\* The table the commit statement reads and writes: the store as it is
\* when the statement executes.
\* (variant: the table as read before the other requests ran)
TableAtStart == stock0
TableAtWrite == stock

\* Ok(_) inserts HX-Trigger: inventoryUpdated; Err(e) answers HeaderMap::new().
\* (variant: the trigger on both arms)
ConfirmHeaders_Always(ok) == TRUE
ConfirmHeaders(ok) == ok

\* =================================================================
\* Search: SearchForm, parse_multiple_value, query_inventory
\* =================================================================
\* Text is a sequence of one-character strings.
ALL_CATEGORIES_STR ==
    <<"A", "l", "l", " ", "C", "a", "t", "e", "g", "o", "r", "i", "e", "s">>
ALL_FOOTPRINTS_STR ==
    <<"A", "l", "l", " ", "F", "o", "o", "t", "p", "r", "i", "n", "t", "s">>
NO_FOOTPRINT_STR ==
    <<"N", "o", " ", "F", "o", "o", "t", "p", "r", "i", "n", "t">>

\* LIMIT 100
LIMIT == 100

Digits == {"0", "1", "2", "3", "4", "5", "6", "7", "8", "9"}
DigitVal == [c \in Digits |->
    CASE c = "0" -> 0 [] c = "1" -> 1 [] c = "2" -> 2 [] c = "3" -> 3
      [] c = "4" -> 4 [] c = "5" -> 5 [] c = "6" -> 6 [] c = "7" -> 7
      [] c = "8" -> 8 [] c = "9" -> 9]

\* A magnitude m * 10^e (the f32 of the column and of the bounds; rounding
\* to f32 is not modelled).
Mag(m, e) == [m |-> m, e |-> e]

RECURSIVE Pow10(_)
Pow10(n) == IF n = 0 THEN 1 ELSE 10 * Pow10(n - 1)

\* a <= b for magnitudes with mantissas below 10^4
MagLeq(a, b) ==
    LET d == a.e - b.e
    IN IF d >= 0 THEN a.m * Pow10(IF d > 5 THEN 5 ELSE d) <= b.m
       ELSE a.m <= b.m * Pow10(IF 0 - d > 5 THEN 5 ELSE 0 - d)

\* str::parse::<f32> on texts made of digits, letters and blanks: Ok for a
\* non-empty run of decimal digits, Err for anything else (no trimming).
RECURSIVE DecimalValue(_)
DecimalValue(t) ==
    IF t = <<>> THEN 0
    ELSE 10 * DecimalValue(SubSeq(t, 1, Len(t) - 1)) + DigitVal[t[Len(t)]]

ParseF32(t) ==
    IF t # <<>> /\ \A i \in 1..Len(t) : t[i] \in Digits
       THEN Some(DecimalValue(t))
       ELSE NULL

\* str::trim
RECURSIVE Trim(_)
Trim(t) ==
    IF t = <<>> THEN t
    ELSE IF Head(t) = " " THEN Trim(Tail(t))
    ELSE IF t[Len(t)] = " " THEN Trim(SubSeq(t, 1, Len(t) - 1))
    ELSE t

parse_multiple_value(v) ==
    LET digits == {i \in 1..Len(v) : v[i] \in Digits}
    IN IF digits = {} THEN NULL
       ELSE LET number_end == CHOOSE i \in digits : \A j \in digits : j <= i
            IN IF number_end >= Len(v)
                  THEN IF ParseF32(v) = NULL THEN NULL
                       ELSE Some(Mag(ParseF32(v)[1], 0))
                  ELSE LET number_part == SubSeq(v, 1, number_end)
                           qty_part == Trim(SubSeq(v, number_end + 1, Len(v)))
                           number == ParseF32(number_part)
                       IN IF number = NULL THEN NULL
                          ELSE Some(Mag(number[1],
                                 CASE qty_part = <<"p">> -> 0 - 12
                                   [] qty_part = <<"n">> -> 0 - 9
                                   [] qty_part = <<"u">> -> 0 - 6
                                   [] qty_part = <<"m">> -> 0 - 3
                                   [] qty_part = <<"k">> -> 3
                                   [] qty_part = <<"M">> -> 6
                                   [] qty_part = <<"G">> -> 9
                                   [] OTHER -> 0))

\* ---- ILIKE
LowerOf == [A |-> "a", B |-> "b", C |-> "c", D |-> "d", E |-> "e", F |-> "f",
            G |-> "g", H |-> "h", I |-> "i", J |-> "j", K |-> "k", L |-> "l",
            M |-> "m", N |-> "n", O |-> "o", P |-> "p", Q |-> "q", R |-> "r",
            S |-> "s", T |-> "t", U |-> "u", V |-> "v", W |-> "w", X |-> "x",
            Y |-> "y", Z |-> "z"]
LowerChar(c) == IF c \in DOMAIN LowerOf THEN LowerOf[c] ELSE c
Lower(t) == [i \in 1..Len(t) |-> LowerChar(t[i])]

\* text LIKE pattern: % is any run of characters, _ any one character, a
\* backslash makes the next pattern character literal.
RECURSIVE Like(_, _)
Like(t, pat) ==
    IF pat = <<>> THEN t = <<>>
    ELSE IF Head(pat) = "%"
       THEN Like(t, Tail(pat)) \/ (t # <<>> /\ Like(Tail(t), pat))
    ELSE IF Head(pat) = "\\" /\ Len(pat) >= 2
       THEN t # <<>> /\ Head(t) = pat[2] /\ Like(Tail(t), Tail(Tail(pat)))
    ELSE IF Head(pat) = "_"
       THEN t # <<>> /\ Like(Tail(t), Tail(pat))
    ELSE t # <<>> /\ Head(t) = Head(pat) /\ Like(Tail(t), Tail(pat))

\* column ILIKE pattern; NULL ILIKE pattern is not true
ILIKE(col, pat) == col # NULL /\ Like(Lower(col[1]), Lower(pat))

\* format!("%{}%", search.search)
SearchPattern(text) == <<"%">> \o text \o <<"%">>

\* ---- the query query_inventory builds: one field per optional clause,
\* holding what push_bind bound (NULL when the clause is not pushed)
CategoryClause(f) ==
    IF f.category # ALL_CATEGORIES_STR /\ f.category # <<>>
       THEN Some(f.category) ELSE NULL

FootprintClause(f) ==
    IF f.footprint # ALL_FOOTPRINTS_STR /\ f.footprint # <<>>
       THEN IF f.footprint = NO_FOOTPRINT_STR
               THEN [op |-> "is_null", bind |-> <<>>]
               ELSE [op |-> "eq", bind |-> f.footprint]
       ELSE [op |-> "none", bind |-> <<>>]

BoundClause(text) ==
    IF text # <<>> THEN parse_multiple_value(text) ELSE NULL

TextClause(f) ==
    IF f.search # <<>> THEN Some(SearchPattern(f.search)) ELSE NULL

BuildQuery(f) ==
    [category  |-> CategoryClause(f),
     footprint |-> FootprintClause(f),
     in_stock  |-> f.in_stock # NULL,
     in_stage  |-> f.in_stage # NULL,
     min       |-> BoundClause(f.min_val),
     max       |-> BoundClause(f.max_val),
     pattern   |-> TextClause(f)]

\* ---- the WHERE clause of the built query, evaluated on one row
Where(q, row) ==
    /\ q.category # NULL => row.category = q.category[1]
    /\ q.footprint.op = "is_null" => row.footprint = NULL
    /\ q.footprint.op = "eq" => row.footprint = Some(q.footprint.bind)
    /\ q.in_stock => (row.quantity # NULL /\ row.quantity[1] > 0)
    /\ q.in_stage => (row.staged # NULL /\ row.staged[1] > 0)
    /\ q.min # NULL => (row.value # NULL /\ MagLeq(q.min[1], row.value[1]))
    /\ q.max # NULL => (row.value # NULL /\ MagLeq(row.value[1], q.max[1]))
    /\ q.pattern # NULL =>
          \/ ILIKE(row.mpn, q.pattern[1])
          \/ ILIKE(Some(row.category), q.pattern[1])
          \/ ILIKE(row.comments, q.pattern[1])

\* ---- ORDER BY <column> ASC | DESC
SortColumn(f) ==
    CASE f.sort = <<"m", "p", "n">> -> "mpn"
      [] f.sort = <<"c", "a", "t", "e", "g", "o", "r", "y">> -> "category"
      [] f.sort = <<"f", "o", "o", "t", "p", "r", "i", "n", "t">> -> "footprint"
      [] f.sort = <<"v", "a", "l", "u", "e">> -> "value"
      [] f.sort = <<"q", "u", "a", "n", "t", "i", "t", "y">> -> "quantity"
      [] OTHER -> "mpn"

Ascending(f) == f.dir = <<"a", "s", "c">>

SortKey(col, row) ==
    CASE col = "mpn" -> row.mpn
      [] col = "category" -> Some(row.category)
      [] col = "footprint" -> row.footprint
      [] col = "value" -> row.value
      [] col = "quantity" -> row.quantity

\* text order by character code (the collation of the database decides the
\* real text order; any total order gives the same set of candidates)
CharCodes ==
    <<" ", "%", "0", "1", "2", "3", "4", "5", "6", "7", "8", "9",
      "A", "B", "C", "D", "E", "F", "G", "H", "I", "J", "K", "L", "M",
      "N", "O", "P", "Q", "R", "S", "T", "U", "V", "W", "X", "Y", "Z",
      "\\", "_",
      "a", "b", "c", "d", "e", "f", "g", "h", "i", "j", "k", "l", "m",
      "n", "o", "p", "q", "r", "s", "t", "u", "v", "w", "x", "y", "z">>
Code(c) == CHOOSE i \in 1..Len(CharCodes) : CharCodes[i] = c

RECURSIVE TextLess(_, _)
TextLess(a, b) ==
    IF b = <<>> THEN FALSE
    ELSE IF a = <<>> THEN TRUE
    ELSE IF Head(a) = Head(b) THEN TextLess(Tail(a), Tail(b))
    ELSE Code(Head(a)) < Code(Head(b))

ValueLess(col, a, b) ==
    CASE col = "quantity" -> a < b
      [] col = "value" -> ~MagLeq(b, a)
      [] OTHER -> TextLess(a, b)

\* ASC puts NULL last, DESC is the reverse order
AscBefore(col, a, b) ==
    a # NULL /\ (b = NULL \/ ValueLess(col, a[1], b[1]))

SortsBefore(f, a, b) ==
    IF Ascending(f) THEN AscBefore(SortColumn(f), a, b)
    ELSE AscBefore(SortColumn(f), b, a)

\* the first / last `need` members of a set C of heap positions in lo..hi
\* (need <= Cardinality(C)), found by bisection on the position
RECURSIVE TakeFirst(_, _, _, _)
TakeFirst(C, need, lo, hi) ==
    IF lo >= hi THEN {x \in C : x <= lo}
    ELSE LET mid == (lo + hi) \div 2
         IN IF Cardinality({x \in C : x <= mid}) >= need
               THEN TakeFirst(C, need, lo, mid)
               ELSE TakeFirst(C, need, mid + 1, hi)

RECURSIVE TakeLast(_, _, _, _)
TakeLast(C, need, lo, hi) ==
    IF lo >= hi THEN {x \in C : x >= hi}
    ELSE LET mid == (lo + hi + 1) \div 2
         IN IF Cardinality({x \in C : x >= mid}) >= need
               THEN TakeLast(C, need, mid, hi)
               ELSE TakeLast(C, need, lo, mid - 1)

\* LIMIT 100 applied to n matching rows (variant: no LIMIT)
RowLimit_None(n) == n
RowLimit(n) == IF n < LIMIT THEN n ELSE LIMIT

\* The positions fetch_all returns for the built query: the matching rows
\* if there are at most LIMIT, else the first LIMIT in sort order; rows
\* with equal sort keys come in heap order or in reverse heap order
\* (heapFirst), SQL leaves the order among them open.
query_inventory_rows(f, inv, heapFirst) ==
    LET query == BuildQuery(f)
        matching == {i \in 1..Len(inv) : Where(query, inv[i])}
        col == SortColumn(f)
        keys == {SortKey(col, inv[i]) : i \in matching}
        before(k) ==
            {i \in matching : SortsBefore(f, SortKey(col, inv[i]), k)}
        class(k) == {i \in matching : SortKey(col, inv[i]) = k}
        cap == RowLimit(Cardinality(matching))
        whole == UNION {class(k) : k \in
                    {k \in keys :
                        Cardinality(before(k)) + Cardinality(class(k)) <= cap}}
        cut == {k \in keys :
                    /\ Cardinality(before(k)) < cap
                    /\ Cardinality(before(k)) + Cardinality(class(k)) > cap}
    IN whole \cup
       UNION {IF heapFirst
                 THEN TakeFirst(class(k), cap - Cardinality(before(k)),
                                1, Len(inv))
                 ELSE TakeLast(class(k), cap - Cardinality(before(k)),
                               1, Len(inv))
              : k \in cut}

\* ---- the catalogs and requests the search is run on
CategoryVals  == <<<<"R">>, <<"c">>>>
FootprintVals == <<NULL, Some(<<"f">>)>>
QuantityVals  == <<NULL, Some(0), Some(1)>>
StagedVals    == <<NULL, Some(0), Some(1)>>
ValueVals     == <<NULL, Some(Mag(1, 0)), Some(Mag(1, 3))>>
MpnVals       == <<NULL, Some(<<"a", "b">>)>>
CommentsVals  == <<NULL, Some(<<"4", "7", "K">>)>>

NumRows == Len(CategoryVals) * Len(FootprintVals) * Len(QuantityVals)
             * Len(StagedVals) * Len(ValueVals) * Len(MpnVals)
             * Len(CommentsVals)

Pick(vals, n, stride) == vals[((n \div stride) % Len(vals)) + 1]

\* one row of every kind; id is the heap position
RowAt(n) ==
    LET s1 == Len(QuantityVals)
        s2 == s1 * Len(CategoryVals)
        s3 == s2 * Len(StagedVals)
        s4 == s3 * Len(FootprintVals)
        s5 == s4 * Len(MpnVals)
        s6 == s5 * Len(ValueVals)
    IN [id        |-> n + 1,
        quantity  |-> Pick(QuantityVals, n, 1),
        category  |-> Pick(CategoryVals, n, s1),
        staged    |-> Pick(StagedVals, n, s2),
        footprint |-> Pick(FootprintVals, n, s3),
        mpn       |-> Pick(MpnVals, n, s4),
        value     |-> Pick(ValueVals, n, s5),
        comments  |-> Pick(CommentsVals, n, s6)]

AllRows == [i \in 1..NumRows |-> RowAt(i - 1)]

\* the whole catalog, and a small one that fits under the LIMIT
Catalogs == {AllRows, SubSeq(AllRows, 1, LIMIT \div 2)}

Flag == {NULL, Some(<<"o", "n">>)}

Forms ==
    [category  : {ALL_CATEGORIES_STR, <<>>, <<"R">>},
     footprint : {ALL_FOOTPRINTS_STR, NO_FOOTPRINT_STR, <<>>, <<"f">>},
     min_val   : {<<>>, <<"k">>, <<"1", " ", "k">>},
     max_val   : {<<>>, <<"1", "k", "1">>, <<"1", "x">>},
     in_stock  : Flag,
     in_stage  : Flag,
     search    : {<<>>, <<"B">>, <<"_">>, <<"7", "k">>},
     sort      : {<<"q", "u", "a", "n", "t", "i", "t", "y">>, <<>>},
     dir       : {<<"a", "s", "c">>, <<>>}]

NoForm == [category |-> <<>>, footprint |-> <<>>, min_val |-> <<>>,
           max_val |-> <<>>, in_stock |-> NULL, in_stage |-> NULL,
           search |-> <<>>, sort |-> <<>>, dir |-> <<>>]

SearchIdle == [pc |-> "idle", response |-> "none", rows |-> {}]

\* no search request in the staging specifications
NoSearch ==
    /\ inventory = <<>>
    /\ form = NoForm
    /\ search = SearchIdle

NoFandc == [footprint |-> <<>>, category |-> <<>>]

ListIdle == [pc |-> "idle", handler |-> "none", results |-> <<>>,
             response |-> "none", options |-> <<>>]

\* no filter-list request
NoList ==
    /\ fandc = NoFandc
    /\ list = ListIdle

FormatIdle == [pc |-> "idle", category |-> <<>>, value |-> [m |-> 0, e |-> 0],
               out |-> [number |-> [m |-> 0, e |-> 0], prefix |-> "none",
                        unit |-> ""]]

\* no format_value call
NoFormat == fmt = FormatIdle

\* ----------------------------------------------------------------- Init
\* The catalogs the staging ledger starts from.  Rows are numbered so that
\* quantity and staged each run over NULL, 0 .. MaxQty; a catalog gives
\* its first item any row and every next item the row `stride` further
\* (same row, staged + 1, quantity + 1, or both + 1), which keeps the
\* number of catalogs linear in the number of rows.  Rows with
\* staged > quantity are the stale rows.
OptVals == MaxQty + 2
Opt(k) == IF k = 0 THEN NULL ELSE Some(k - 1)
RowOf(n) == [quantity |-> Opt((n \div OptVals) % OptVals),
             staged   |-> Opt(n % OptVals)]
Strides == {0, 1, OptVals, OptVals + 1}
StockCatalogs ==
    {[i \in Items |-> RowOf(b + (i - 1) * d)] :
        b \in 0..(OptVals * OptVals - 1), d \in Strides}

Init ==
    /\ stock \in StockCatalogs
    /\ stock0 = stock
    /\ req = [p \in Procs |-> Idle]
    /\ NoSearch
    /\ NoList
    /\ NoFormat

\* -------------------------------------------------------------- actions
\* Entry of a handler up to the result of state.pool.acquire().await.
Enter(p, kind, id, number) ==
    /\ req[p].pc = "idle"
    \* tasks are interchangeable: they are taken in order of their number
    /\ \A o \in Procs : o < p => req[o].pc # "idle"
    /\ \E acquired \in BOOLEAN :
         req' = [req EXCEPT ![p] =
                   IF acquired
                      THEN [Idle EXCEPT !.pc = "statement", !.kind = kind,
                                        !.id = id, !.number = number]
                      ELSE [Idle EXCEPT !.pc = "done", !.kind = kind,
                                        !.id = id, !.number = number,
                                        !.exec = "noconn",
                                        !.response =
                                            handle_generic_inventory_error]]
    /\ UNCHANGED <<stock, stock0, searchVars, listVars, formatVars>>

staging_handler(p) ==
    \E id \in Items : Enter(p, "stage", id, 1)

unstaging_handler(p) ==
    \E id \in Items : Enter(p, "unstage", id, 0 - 1)

\* update_stage takes any i64; a caller other than the two handlers may pass
\* a delta other than +1 / -1.
Numbers == {0 - MaxDelta, MaxDelta}

adjust_call(p) ==
    \E id \in Items : \E number \in Numbers : Enter(p, "adjust", id, number)

confirm_stage_handler(p) == Enter(p, "confirm", 0, 0)

\* update_stage awaited by a handler, followed by html_stage on its result.
\* ok = FALSE is the Err(e) arm: the error is logged and None is returned.
update_stage(p) ==
    /\ req[p].pc = "statement"
    /\ req[p].kind \in {"stage", "unstage", "adjust"}
    /\ \E ok \in BOOLEAN :
         LET id     == req[p].id
             number == req[p].number
             row    == RowAtWrite(id)
             hit    == ok /\ UpdateStageWhere(row, number)
             newrow == UpdateStageSet(row, number)
             result == IF hit THEN newrow.staged ELSE NULL
         IN /\ stock' = IF hit THEN [stock EXCEPT ![id] = newrow] ELSE stock
            /\ req' = [req EXCEPT ![p].pc = "done",
                                  ![p].exec = IF ok THEN "ok" ELSE "err",
                                  ![p].result = result,
                                  ![p].response = html_stage(result)]
    /\ UNCHANGED <<stock0, searchVars, listVars, formatVars>>

\* The commit statement of confirm_stage_handler and its response.
confirm_execute(p) ==
    /\ req[p].pc = "statement"
    /\ req[p].kind = "confirm"
    /\ \E ok \in BOOLEAN :
         /\ stock' = IF ok THEN ConfirmAll(TableAtWrite) ELSE stock
         /\ req' = [req EXCEPT ![p].pc = "done",
                               ![p].exec = IF ok THEN "ok" ELSE "err",
                               ![p].trigger = ConfirmHeaders(ok),
                               ![p].response =
                                  IF ok THEN OkBody
                                  ELSE handle_generic_inventory_error]
    /\ UNCHANGED <<stock0, searchVars, listVars, formatVars>>

Next ==
    \E p \in Procs :
        \/ staging_handler(p)
        \/ unstaging_handler(p)
        \/ confirm_stage_handler(p)
        \/ update_stage(p)
        \/ confirm_execute(p)

Spec == Init /\ [][Next]_vars

\* Adjust calls only, on items that start at staged = 0; the quantities
\* of the items are NULL, 0 .. MaxQty, all equal or each the next one.
AdjustCatalogs ==
    {[i \in Items |-> [quantity |-> Opt((b + (i - 1) * d) % OptVals),
                       staged   |-> Some(0)]] :
        b \in 0..(OptVals - 1), d \in {0, 1}}

InitAdjust ==
    /\ stock \in AdjustCatalogs
    /\ stock0 = stock
    /\ req = [p \in Procs |-> Idle]
    /\ NoSearch
    /\ NoList
    /\ NoFormat

NextAdjust ==
    \E p \in Procs :
        \/ staging_handler(p)
        \/ unstaging_handler(p)
        \/ adjust_call(p)
        \/ update_stage(p)

SpecAdjust == InitAdjust /\ [][NextAdjust]_vars

\* ---- the search request
InitSearch ==
    /\ stock = [i \in Items |-> [quantity |-> NULL, staged |-> NULL]]
    /\ stock0 = stock
    /\ req = [p \in Procs |-> Idle]
    /\ inventory \in Catalogs
    /\ form \in Forms
    /\ search = SearchIdle
    /\ NoList
    /\ NoFormat

\* search_handler up to the result of state.pool.acquire().await
search_handler ==
    /\ search.pc = "idle"
    /\ \E acquired \in BOOLEAN :
         search' = IF acquired
                      THEN [search EXCEPT !.pc = "query"]
                      ELSE [search EXCEPT !.pc = "done",
                                          !.response = "article_error"]
    /\ UNCHANGED <<stagingVars, inventory, form, listVars, formatVars>>

\* query_inventory awaited by search_handler, and the response built from it
query_inventory ==
    /\ search.pc = "query"
    /\ \E ok \in BOOLEAN : \E heapFirst \in BOOLEAN :
         search' = IF ok
                      THEN [pc |-> "done", response |-> "table",
                            rows |-> query_inventory_rows(form, inventory,
                                                          heapFirst)]
                      ELSE [pc |-> "done", response |-> "article_error",
                            rows |-> {}]
    /\ UNCHANGED <<stagingVars, inventory, form, listVars, formatVars>>

NextSearch == search_handler \/ query_inventory

SpecSearch == InitSearch /\ [][NextSearch]_vars

\* =================================================================
\* Filter lists: category_list_handler, footprint_list_handler
\* =================================================================
\* the sequences that list every element of S once
RECURSIVE Orders(_)
Orders(S) ==
    IF S = {} THEN {<<>>}
    ELSE UNION {{<<x>> \o o : o \in Orders(S \ {x})} : x \in S}

\* Vec::swap_remove(idx): the last element takes the place of the removed one
swap_remove(v, idx) ==
    [i \in 1..(Len(v) - 1) |-> IF i = idx THEN v[Len(v)] ELSE v[i]]

\* iter().position(|x| x == prev_value): the first index, or None
position(v, x) ==
    LET hits == {i \in 1..Len(v) : v[i] = x}
    IN IF hits = {} THEN NULL
       ELSE Some(CHOOSE i \in hits : \A j \in hits : i <= j)

\* response_filter_list: the texts of the option elements it renders, in
\* order: the chosen element if any, no_filter, then what is left of
\* filter_results.
response_filter_list(filter_results, prev_value, no_filter) ==
    LET chosen_idx == position(filter_results, prev_value)
        removed == chosen_idx # NULL /\ prev_value # no_filter
        chosen_elem == IF removed THEN Some(filter_results[chosen_idx[1]])
                       ELSE NULL
        rest == IF removed THEN swap_remove(filter_results, chosen_idx[1])
                ELSE filter_results
    IN chosen_elem \o <<no_filter>> \o rest

\* SELECT DISTINCT category FROM inventory
\*   [WHERE footprint IS NULL | WHERE footprint = $1]
CategoryListWhere(f, row) ==
    IF f.footprint = NO_FOOTPRINT_STR THEN row.footprint = NULL
    ELSE IF f.footprint # ALL_FOOTPRINTS_STR
       THEN row.footprint = Some(f.footprint)
    ELSE TRUE

DistinctCategories(f, inv) ==
    {inv[i].category : i \in {j \in 1..Len(inv) : CategoryListWhere(f, inv[j])}}

\* SELECT DISTINCT COALESCE(footprint, 'No Footprint') FROM inventory
\*   [WHERE category = $1]
FootprintListWhere(f, row) ==
    f.category # ALL_CATEGORIES_STR => row.category = f.category

DistinctFootprints(f, inv) ==
    {COALESCE(inv[i].footprint, NO_FOOTPRINT_STR) :
        i \in {j \in 1..Len(inv) : FootprintListWhere(f, inv[j])}}

\* ---- the catalogs and requests the lists are built from
ListCategoryVals  == <<<<"R">>, <<"c">>, <<"d">>>>
ListFootprintVals == <<NULL, Some(<<"f">>), Some(<<"g">>)>>
NumListRows == Len(ListCategoryVals) * Len(ListFootprintVals)

ListRowAt(n) ==
    [RowAt(0) EXCEPT !.id = n + 1,
                     !.category = Pick(ListCategoryVals, n, 1),
                     !.footprint = Pick(ListFootprintVals, n,
                                        Len(ListCategoryVals))]

\* the rows numbered in S, in heap order
RECURSIVE RowsOf(_)
RowsOf(S) ==
    IF S = {} THEN <<>>
    ELSE LET last == CHOOSE n \in S : \A k \in S : k <= n
         IN Append(RowsOf(S \ {last}), ListRowAt(last))

\* every combination of (category, footprint) pairs the table may hold
ListCatalogs == {RowsOf(S) : S \in SUBSET (0..(NumListRows - 1))}

ListForms ==
    [footprint : {ALL_FOOTPRINTS_STR, NO_FOOTPRINT_STR, <<>>, <<"f">>, <<"g">>},
     category  : {ALL_CATEGORIES_STR, <<"R">>, <<"c">>, <<"x">>}]

InitList ==
    /\ stock = [i \in Items |-> [quantity |-> NULL, staged |-> NULL]]
    /\ stock0 = stock
    /\ req = [p \in Procs |-> Idle]
    /\ inventory \in ListCatalogs
    /\ form = NoForm
    /\ search = SearchIdle
    /\ fandc \in ListForms
    /\ list = ListIdle
    /\ NoFormat

\* a list handler up to the result of state.pool.acquire().await
ListEnter(handler) ==
    /\ list.pc = "idle"
    /\ \E acquired \in BOOLEAN :
         list' = IF acquired
                    THEN [list EXCEPT !.pc = "query", !.handler = handler]
                    ELSE [list EXCEPT !.pc = "done", !.handler = handler,
                                      !.response = "article_error"]
    /\ UNCHANGED <<stagingVars, searchVars, fandc, formatVars>>

category_list_handler == ListEnter("category")

footprint_list_handler == ListEnter("footprint")

\* fetch_all awaited by a list handler, and the response built from it; the
\* store returns the distinct values in an order of its choosing.
fetch_all ==
    /\ list.pc = "query"
    /\ \E ok \in BOOLEAN :
         IF ok
            THEN \E results \in Orders(IF list.handler = "category"
                                  THEN DistinctCategories(fandc, inventory)
                                  ELSE DistinctFootprints(fandc, inventory)) :
                   list' = [list EXCEPT
                      !.pc = "done", !.results = results,
                      !.response = "options",
                      !.options =
                         IF list.handler = "category"
                            THEN response_filter_list(results, fandc.category,
                                                      ALL_CATEGORIES_STR)
                            ELSE response_filter_list(results, fandc.footprint,
                                                      ALL_FOOTPRINTS_STR)]
            ELSE list' = [list EXCEPT !.pc = "done",
                                      !.response = "article_error"]
    /\ UNCHANGED <<stagingVars, searchVars, fandc, formatVars>>

NextList == category_list_handler \/ footprint_list_handler \/ fetch_all

SpecList == InitList /\ [][NextList]_vars

\* =================================================================
\* Value display: format_mult_value, format_value
\* =================================================================
\* The f32 value is the decimal m * 10^e with a signed mantissa of at most
\* MantissaDigits digits; such decimals and the powers of ten they are compared with
\* are distinct f32 values in the same order (rounding to f32 and the
\* two-decimal rendering of the number are not modelled).
MaxExp == 9
MantissaDigits == 6

\* value < 1e<t>
Below(value, t) ==
    \/ value.m <= 0
    \/ /\ value.e < t
       /\ (t - value.e >= MantissaDigits \/ value.m < Pow10(t - value.e))

\* format!("{:.2} <prefix>", value * 1e<scale>): the number printed, as the
\* decimal of the product, and the prefix ("mu" is the micro sign, " " the
\* blank of the unscaled case)
Scaled(value, scale, prefix) ==
    [number |-> Mag(value.m, value.e + scale), prefix |-> prefix]

format_mult_value(value) ==
    IF Below(value, 0 - 21) THEN Scaled(value, 0, " ")
    ELSE IF Below(value, 0 - 9) THEN Scaled(value, 12, "p")
    ELSE IF Below(value, 0 - 6) THEN Scaled(value, 9, "n")
    ELSE IF Below(value, 0 - 3) THEN Scaled(value, 6, "mu")
    ELSE IF Below(value, 0) THEN Scaled(value, 3, "m")
    ELSE IF Below(value, 3) THEN Scaled(value, 0, " ")
    ELSE IF Below(value, 6) THEN Scaled(value, 0 - 3, "k")
    ELSE IF Below(value, 9) THEN Scaled(value, 0 - 6, "M")
    ELSE Scaled(value, 0 - 9, "G")

CapCeramic == <<"C", "a", "p", "C", "e", "r", "a", "m", "i", "c">>
CapElectro == <<"C", "a", "p", "E", "l", "e", "c", "t", "r", "o">>
Resistor == <<"R", "e", "s", "i", "s", "t", "o", "r">>
Inductor == <<"I", "n", "d", "u", "c", "t", "o", "r">>

\* format_value: [number, prefix, unit] of the text "<number> <prefix><unit>"
format_value(category, value) ==
    LET um == CASE category = CapCeramic -> <<"F", TRUE>>
                [] category = CapElectro -> <<"F", TRUE>>
                [] category = Resistor -> <<"Ohm", TRUE>>
                [] category = Inductor -> <<"H", TRUE>>
                [] OTHER -> <<"", FALSE>>
        text == IF um[2] THEN format_mult_value(value)
                ELSE Scaled(value, 0, " ")
    IN [number |-> text.number, prefix |-> text.prefix, unit |-> um[1]]

\* ---- the values and categories format_value is called on
Mantissas == {0, 1, 47, 999, 1000, Pow10(MantissaDigits) - 1}
SignedMantissas == Mantissas \cup {0 - m : m \in Mantissas}
Exponents == (0 - 3 * MaxExp)..MaxExp
FormatCategories ==
    {CapCeramic, CapElectro, Resistor, Inductor, <<"D", "i", "o", "d", "e">>}

InitFormat ==
    /\ stock = [i \in Items |-> [quantity |-> NULL, staged |-> NULL]]
    /\ stock0 = stock
    /\ req = [p \in Procs |-> Idle]
    /\ NoSearch
    /\ NoList
    /\ \E category \in FormatCategories :
         \E m \in SignedMantissas : \E e \in Exponents :
            fmt = [FormatIdle EXCEPT !.category = category,
                                     !.value = Mag(m, e)]

\* html_table_row: a row with Some(value) renders format_value(category, value)
html_table_row ==
    /\ fmt.pc = "idle"
    /\ fmt' = [fmt EXCEPT !.pc = "done",
                          !.out = format_value(fmt.category, fmt.value)]
    /\ UNCHANGED <<stagingVars, searchVars, listVars>>

NextFormat == html_table_row

SpecFormat == InitFormat /\ [][NextFormat]_vars

\* =================================================================
\* Properties of the staging ledger
\* =================================================================
Done(p) == req[p].pc = "done"
\* the task's statement executed without a store error
Ran(p) == Done(p) /\ req[p].exec = "ok"
IsAdjust(p) == req[p].kind \in {"stage", "unstage", "adjust"}
IsConfirm(p) == req[p].kind = "confirm"
RanSet == {p \in Procs : Ran(p)}
OthersIdle(p) == \A o \in Procs : o # p => req[o].pc = "idle"
\* the step in which task p executes its statement
Executes(p) == req[p].pc = "statement" /\ req'[p].pc = "done"

\* One call applied on its own to table s.
ApplyCall(s, p) ==
    IF IsConfirm(p) THEN ConfirmAll(s)
    ELSE LET row == s[req[p].id]
         IN IF UpdateStageWhere(row, req[p].number)
               THEN [s EXCEPT ![req[p].id] = UpdateStageSet(row, req[p].number)]
               ELSE s

RECURSIVE ApplyOrder(_, _)
ApplyOrder(s, o) ==
    IF o = <<>> THEN s ELSE ApplyOrder(ApplyCall(s, Head(o)), Tail(o))

\* C1: under Adjust calls only, an item that starts at staged = 0 with
\* quantity = Q >= 0 keeps its quantity and always has 0 <= staged <= Q,
\* in the store and in every value a call returns.
C1_ClampInvariant ==
    \A i \in Items :
        stock0[i].quantity # NULL =>
            /\ stock[i].quantity = stock0[i].quantity
            /\ stock[i].staged # NULL
            /\ stock[i].staged[1] >= 0
            /\ stock[i].staged[1] <= stock0[i].quantity[1]
            /\ \A p \in Procs :
                 (Done(p) /\ req[p].id = i /\ req[p].result # NULL) =>
                    /\ req[p].result[1] >= 0
                    /\ req[p].result[1] <= stock0[i].quantity[1]

\* two stage calls ran on an item with quantity 1: the second one hit the
\* ceiling.
C1_Witness ==
    \E p, q \in Procs :
        /\ p # q /\ Ran(p) /\ Ran(q)
        /\ req[p].kind = "stage" /\ req[q].kind = "stage"
        /\ req[p].id = req[q].id
        /\ stock0[req[p].id].quantity = Some(1)
        /\ stock[req[p].id].staged = Some(1)

\* C2 (as claimed): an Adjust whose staged + delta falls outside
\* [0, quantity] changes no row and returns the rejected outcome.
C2_Original ==
    [][\A p \in Procs :
         (Executes(p) /\ IsAdjust(p)) =>
            LET row == stock[req[p].id]
                sum == COALESCE(row.staged, 0) + req[p].number
            IN (row.quantity # NULL /\ (sum < 0 \/ sum > row.quantity[1])) =>
                  /\ stock' = stock
                  /\ req'[p].result = NULL]_vars

\* C2 (amended): an Adjust whose staged + delta is below 0, or whose item
\* has no quantity, or whose statement fails, changes no row and returns
\* None; an Adjust whose staged + delta is above quantity is not rejected:
\* it stores staged = quantity and returns quantity.
C2_Amended ==
    [][\A p \in Procs :
         (Executes(p) /\ IsAdjust(p)) =>
            LET id  == req[p].id
                row == stock[id]
                sum == COALESCE(row.staged, 0) + req[p].number
            IN /\ (row.quantity = NULL \/ sum < 0 \/ req'[p].exec = "err") =>
                     /\ stock' = stock
                     /\ req'[p].result = NULL
               /\ (row.quantity # NULL /\ sum > row.quantity[1]
                     /\ req'[p].exec = "ok") =>
                     /\ stock' = [stock EXCEPT ![id].staged = row.quantity]
                     /\ req'[p].result = row.quantity]_vars

\* a single call with delta MaxDelta on an item with a smaller quantity was
\* clamped: the store and the caller both got the quantity.
C2_Witness ==
    \E p \in Procs :
        /\ Ran(p) /\ OthersIdle(p)
        /\ req[p].number = MaxDelta
        /\ stock0[req[p].id].quantity = Some(MaxDelta - 1)
        /\ stock[req[p].id].staged = Some(MaxDelta - 1)
        /\ req[p].result = Some(MaxDelta - 1)

\* C3: the store always equals the calls that executed so far applied one
\* after another in some order; in particular k stage calls on an item
\* with quantity >= k leave staged = k.
C3_NoLostUpdate ==
    /\ \E o \in Orders(RanSet) : ApplyOrder(stock0, o) = stock
    /\ \A i \in Items :
         LET on == {p \in RanSet : req[p].id = i}
         IN (/\ stock0[i].quantity # NULL
             /\ \A p \in on : req[p].kind = "stage"
             /\ Cardinality(on) <= stock0[i].quantity[1]) =>
                stock[i].staged = Some(Cardinality(on))

\* every task staged the same item and none was lost or clamped
C3_Witness ==
    \E i \in Items :
        /\ \A p \in Procs : Ran(p) /\ req[p].kind = "stage" /\ req[p].id = i
        /\ stock[i].staged = Some(NumProcs)

\* C4: a successful commit statement changes exactly the rows with staged
\* non-null and staged <= quantity, to (quantity - staged, NULL), and
\* leaves every other row as it was.
C4_CommitExact ==
    [][\A p \in Procs :
         (Executes(p) /\ IsConfirm(p) /\ req'[p].exec = "ok") =>
            \A i \in Items :
               LET row == stock[i]
               IN IF /\ row.staged # NULL /\ row.quantity # NULL
                     /\ row.staged[1] <= row.quantity[1]
                     THEN stock'[i] =
                            [quantity |-> Some(row.quantity[1] - row.staged[1]),
                             staged   |-> NULL]
                     ELSE stock'[i] = row]_vars

\* one commit ran on a catalog with A(quantity 2, staged 2) and the stale
\* B(quantity 1, staged 2): A became (0, NULL), B is untouched.
C4_Witness ==
    \E p \in Procs : \E a, b \in Items :
        /\ Ran(p) /\ IsConfirm(p) /\ OthersIdle(p)
        /\ stock0[a] = [quantity |-> Some(2), staged |-> Some(2)]
        /\ stock0[b] = [quantity |-> Some(1), staged |-> Some(2)]
        /\ stock[a] = [quantity |-> Some(0), staged |-> NULL]
        /\ stock[b] = stock0[b]

\* C5: when one commit and one adjust are the calls that ran, the store is
\* the outcome of "adjust then commit" or of "commit then adjust".
C5_CommitAdjustSerial ==
    \A a, c \in Procs :
        (/\ Ran(a) /\ IsAdjust(a) /\ Ran(c) /\ IsConfirm(c)
         /\ RanSet = {a, c}) =>
            \/ stock = ApplyOrder(stock0, <<a, c>>)
            \/ stock = ApplyOrder(stock0, <<c, a>>)

\* a commit and an adjust ran, the adjust first, and the other order would
\* have given a different store
C5_Witness ==
    \E a, c \in Procs :
        /\ Ran(a) /\ IsAdjust(a) /\ Ran(c) /\ IsConfirm(c)
        /\ RanSet = {a, c}
        /\ stock = ApplyOrder(stock0, <<a, c>>)
        /\ stock # ApplyOrder(stock0, <<c, a>>)
        /\ stock # stock0

\* C6: an item whose quantity is null is never changed by Adjust calls and
\* every call on it returns None.
C6_NullQuantity ==
    \A i \in Items :
        stock0[i].quantity = NULL =>
            /\ stock[i] = stock0[i]
            /\ \A p \in Procs :
                 (Done(p) /\ IsAdjust(p) /\ req[p].id = i) =>
                    /\ req[p].result = NULL
                    /\ req[p].exec # "noconn" =>
                          req[p].response = html_stage(NULL)

\* a call with a positive delta executed on an item without quantity
C6_Witness ==
    \E p \in Procs :
        /\ Ran(p) /\ req[p].number > 0
        /\ stock0[req[p].id].quantity = NULL

\* C7: as long as the only calls that ran on an item at staged = 0 are
\* unstage calls, however many, the stored staged is 0 and each of them
\* returned None.
C7_UnstageAtZero ==
    \A i \in Items :
        (/\ stock0[i].staged = Some(0)
         /\ \A p \in RanSet : req[p].id = i => req[p].kind = "unstage") =>
            /\ stock[i] = stock0[i]
            /\ \A p \in RanSet :
                 req[p].id = i =>
                    /\ req[p].result = NULL
                    /\ req[p].response = html_stage(NULL)

\* every task unstaged the same stocked item at staged = 0
C7_Witness ==
    \E i \in Items :
        /\ \A p \in Procs : Ran(p) /\ req[p].kind = "unstage" /\ req[p].id = i
        /\ stock0[i].quantity = Some(MaxQty)
        /\ stock[i].staged = Some(0)

\* C8 (as claimed): a stage/unstage call reports the new staged value, a
\* rejection (empty result), or, when the store fails while executing the
\* update, the generic store error.
C8_StoreErrorReported ==
    \A p \in Procs :
        (Done(p) /\ IsAdjust(p)) =>
            /\ req[p].exec \in {"err", "noconn"} =>
                  req[p].response = handle_generic_inventory_error
            /\ req[p].exec = "ok" => req[p].response = html_stage(req[p].result)

\* C9: a commit task carries the inventoryUpdated trigger exactly when its
\* statement succeeded, then with the OK body; a failed one answers the
\* generic error; and while no statement has succeeded the store is the
\* initial catalog.
C9_NotifyIffCommitted ==
    /\ \A p \in Procs :
         IsConfirm(p) =>
            /\ req[p].trigger <=> Ran(p)
            /\ (Done(p) /\ Ran(p)) => req[p].response = OkBody
            /\ (Done(p) /\ ~Ran(p)) =>
                  req[p].response = handle_generic_inventory_error
    /\ (RanSet = {}) => stock = stock0

\* a commit whose statement failed left a committable catalog as it was
C9_Witness ==
    \E p \in Procs : \E i \in Items :
        /\ Done(p) /\ IsConfirm(p) /\ req[p].exec = "err"
        /\ OthersIdle(p)
        /\ ConfirmWhere(stock0[i]) /\ stock0[i].staged[1] > 0
        /\ stock = stock0

\* =================================================================
\* Properties of search
\* =================================================================
\* sub occurs in text, letter case ignored
Contains(text, sub) ==
    \E i \in 1..(Len(text) - Len(sub) + 1) :
        SubSeq(Lower(text), i, i + Len(sub) - 1) = Lower(sub)

ContainsIn(col, sub) == col # NULL /\ Contains(col[1], sub)

PlainText(t) == \A i \in 1..Len(t) : t[i] \notin {"%", "_", "\\"}

\* the predicates of a request other than footprint and search
CommonMatch(f, row) ==
    /\ (f.category # ALL_CATEGORIES_STR /\ f.category # <<>>) =>
          row.category = f.category
    /\ f.in_stock # NULL => (row.quantity # NULL /\ row.quantity[1] > 0)
    /\ f.in_stage # NULL => (row.staged # NULL /\ row.staged[1] > 0)
    /\ parse_multiple_value(f.min_val) # NULL =>
          (row.value # NULL
             /\ MagLeq(parse_multiple_value(f.min_val)[1], row.value[1]))
    /\ parse_multiple_value(f.max_val) # NULL =>
          (row.value # NULL
             /\ MagLeq(row.value[1], parse_multiple_value(f.max_val)[1]))

ClaimedMatch(f, row) ==
    /\ CommonMatch(f, row)
    /\ f.footprint # ALL_FOOTPRINTS_STR =>
          IF f.footprint = NO_FOOTPRINT_STR
             THEN row.footprint = NULL
             ELSE row.footprint = Some(f.footprint)
    /\ f.search # <<>> =>
          \/ ContainsIn(row.mpn, f.search)
          \/ ContainsIn(Some(row.category), f.search)
          \/ ContainsIn(row.comments, f.search)

AmendedMatch(f, row) ==
    /\ CommonMatch(f, row)
    /\ (f.footprint # ALL_FOOTPRINTS_STR /\ f.footprint # <<>>) =>
          IF f.footprint = NO_FOOTPRINT_STR
             THEN row.footprint = NULL
             ELSE row.footprint = Some(f.footprint)
    /\ (f.search # <<>> /\ PlainText(f.search)) =>
          \/ ContainsIn(row.mpn, f.search)
          \/ ContainsIn(Some(row.category), f.search)
          \/ ContainsIn(row.comments, f.search)
    /\ (f.search # <<>> /\ ~PlainText(f.search)) =>
          \/ ILIKE(row.mpn, SearchPattern(f.search))
          \/ ILIKE(Some(row.category), SearchPattern(f.search))
          \/ ILIKE(row.comments, SearchPattern(f.search))

Answered == search.pc = "done" /\ search.response = "table"

\* C10 (as claimed): search returns only rows that satisfy every active
\* predicate, the footprint predicate being skipped only for "All
\* Footprints" and the text predicate being substring containment; at most
\* 100 rows; all of them when at most 100 match.
C10_Original ==
    Answered =>
        LET match == {i \in 1..Len(inventory) :
                         ClaimedMatch(form, inventory[i])}
        IN /\ search.rows \subseteq match
           /\ Cardinality(search.rows) <= LIMIT
           /\ Cardinality(match) <= LIMIT => search.rows = match

\* C10 (amended): as claimed, except that the footprint predicate is also
\* skipped for an empty footprint, and that a search text containing %, _
\* or a backslash is matched as the ILIKE pattern %text% (substring
\* containment for any other text).
C10_Amended ==
    Answered =>
        LET match == {i \in 1..Len(inventory) :
                         AmendedMatch(form, inventory[i])}
        IN /\ search.rows \subseteq match
           /\ Cardinality(search.rows) <= LIMIT
           /\ Cardinality(match) <= LIMIT => search.rows = match

\* the request {footprint: "No Footprint", search: "7k"} on the whole
\* catalog: more than 100 rows match and 100 are returned
C10_Witness ==
    /\ Answered
    /\ inventory = AllRows
    /\ form.footprint = NO_FOOTPRINT_STR
    /\ form.search = <<"7", "k">>
    /\ form.category = ALL_CATEGORIES_STR
    /\ Cardinality(search.rows) = LIMIT
    /\ Cardinality({i \in 1..Len(inventory) :
                       AmendedMatch(form, inventory[i])}) > LIMIT

\* =================================================================
\* Properties of the filter lists
\* =================================================================
ListAnswered == list.pc = "done" /\ list.response = "options"
\* the caller-selected value and the no-constraint sentinel of the handler
Selected == IF list.handler = "category" THEN fandc.category
            ELSE fandc.footprint
Sentinel == IF list.handler = "category" THEN ALL_CATEGORIES_STR
            ELSE ALL_FOOTPRINTS_STR
SelectedMoves ==
    /\ \E i \in 1..Len(list.results) : list.results[i] = Selected
    /\ Selected # Sentinel
Without(v, x) == SelectSeq(v, LAMBDA y : y # x)

\* C11 (as claimed): the regenerated list is the selected value (if it is
\* in the store's result and is not the sentinel), then the sentinel, then
\* the remaining values in the order in which the store returned them.
C11_StoreOrderKept ==
    ListAnswered =>
        list.options =
            IF SelectedMoves
               THEN <<Selected, Sentinel>> \o Without(list.results, Selected)
               ELSE <<Sentinel>> \o list.results

\* =================================================================
\* Properties of the value display
\* =================================================================
Formatted == fmt.pc = "done"
UnitBearing == fmt.category \in {CapCeramic, CapElectro, Resistor, Inductor}
\* the magnitude |value|
Magnitude(value) ==
    Mag(IF value.m < 0 THEN 0 - value.m ELSE value.m, value.e)
\* |value| < 1e<t>
MagnitudeBelow(value, t) ==
    LET a == Magnitude(value)
    IN \/ a.m = 0
       \/ /\ a.e < t
          /\ (t - a.e >= MantissaDigits \/ a.m < Pow10(t - a.e))
\* the brackets as claimed: <<strict upper bound 1e<t>, prefix, multiplier 1e<s>>>
Brackets ==
    <<<<0 - 9, "p", 12>>, <<0 - 6, "n", 9>>, <<0 - 3, "mu", 6>>,
      <<0, "m", 3>>, <<3, " ", 0>>, <<6, "k", 0 - 3>>, <<9, "M", 0 - 6>>>>
Giga == <<0, "G", 0 - 9>>
TinyEpsilon == 0 - 21
ClaimedBracket(value) ==
    IF MagnitudeBelow(value, TinyEpsilon) THEN <<0, " ", 0>>
    ELSE LET under == {i \in 1..Len(Brackets) :
                          MagnitudeBelow(value, Brackets[i][1])}
         IN IF under = {} THEN Giga
            ELSE Brackets[CHOOSE i \in under : \A j \in under : i <= j]

\* C12 (as claimed): for a unit-bearing category the prefix and the
\* multiplier are those of the first bracket whose strict upper bound is
\* above the value's magnitude (giga when there is none), and only a value
\* closer to zero than 1e-21 is printed unscaled with the blank prefix
\* instead.
C12_PrefixByMagnitude ==
    (Formatted /\ UnitBearing) =>
        LET b == ClaimedBracket(fmt.value)
        IN /\ fmt.out.prefix = b[2]
           /\ fmt.out.number = Mag(fmt.value.m, fmt.value.e + b[3])

\* =================================================================
\* The ledger invariant
\* =================================================================
\* quantity is null or >= 0, staged is null or within [0, quantity]
ValidRow(row) ==
    /\ row.quantity # NULL => row.quantity[1] >= 0
    /\ row.staged # NULL =>
          /\ row.quantity # NULL
          /\ row.staged[1] >= 0
          /\ row.staged[1] <= row.quantity[1]
ValidCatalog(s) == \A i \in Items : ValidRow(s[i])

\* C13: from a catalog in which every item has quantity null or >= 0 and
\* staged null or within [0, quantity], every interleaving of stage,
\* unstage and commit requests keeps every non-null quantity >= 0 and
\* every non-null staged within [0, quantity], and so does every staged
\* value a request returns.
C13_LedgerInvariant ==
    ValidCatalog(stock0) =>
        /\ ValidCatalog(stock)
        /\ \A p \in Procs :
             (Ran(p) /\ IsAdjust(p) /\ req[p].result # NULL) =>
                /\ req[p].result[1] >= 0
                /\ stock0[req[p].id].quantity # NULL
                /\ req[p].result[1] <= stock0[req[p].id].quantity[1]

\* a commit took all of an item's stock (quantity 1, staged 1) and a stage
\* request that ran after it was held at the reduced quantity 0
C13_Witness ==
    \E c, a \in Procs : \E i \in Items :
        /\ ValidCatalog(stock0)
        /\ stock0[i] = [quantity |-> Some(1), staged |-> Some(1)]
        /\ Ran(c) /\ IsConfirm(c)
        /\ Ran(a) /\ req[a].kind = "stage" /\ req[a].id = i
        /\ req[a].result = Some(0)
        /\ stock[i] = [quantity |-> Some(0), staged |-> Some(0)]

====
